---- MODULE Spec2Model ----
(***************************************************************************)
(* Multi-board Wordle knowledge extraction and candidate scoring           *)
(* (impersonate_guesser.py).                                               *)
(*                                                                         *)
(* A word is a tuple of one-character strings; positions inside the        *)
(* knowledge are 0-based as in the Python code, so the code's word[pos] is *)
(* word[pos + 1] here.  A score is kept in half points (the code's float   *)
(* score times two): 10, 1.5 and 5 become 20, 3 and 10, and every value    *)
(* the code can compute is a multiple of 0.5, exactly representable as a   *)
(* double.                                                                 *)
(***************************************************************************)
EXTENDS Integers, Sequences, FiniteSets, TLC

\* ------------------------------------------------------------------ bounds
\* Number of boards handed to the engine.
NumBoards == 2
\* Total number of guesses the caller records over all boards.
MaxTurns == 2
\* num_simulations of generate_training_data
MaxSims == 2

\* --------------------------------------------------------------- constants
NUM_CANDIDATES == 100
WORD_LENGTH == 5
MAX_GUESSES == 6

\* ------------------------------------------------------------------ inputs
Tease == <<"t", "e", "a", "s", "e">>
Audio == <<"a", "u", "d", "i", "o">>
Rebel == <<"r", "e", "b", "e", "l">>
Apple == <<"a", "p", "p", "l", "e">>

\* Guesses the caller applies to the boards, and the boards' hidden targets
\* (board 1 hides the first, board 2 the second, board 3 the first again, ...).
GuessWords == {Tease, Audio}
TargetWords == <<Tease, Audio>>
TargetOf(b) == TargetWords[((b - 1) % Len(TargetWords)) + 1]

Tiles == {"green", "yellow", "grey"}
AllRows == [1..WORD_LENGTH -> Tiles]

Row(t1, t2, t3, t4, t5) == <<t1, t2, t3, t4, t5>>

\* Feedback rows the caller records next to a guess.  The rows need not be
\* consistent with the target (the module's own demo records "simplified"
\* rows), so they are chosen freely from this set.
FeedbackRows ==
    { Row("grey", "grey", "grey", "grey", "grey"),
      Row("yellow", "grey", "grey", "grey", "grey"),
      Row("grey", "yellow", "grey", "grey", "grey"),
      Row("grey", "grey", "grey", "grey", "green"),
      Row("green", "green", "green", "green", "green") }

\* Contents of wordlist.txt: lines as read by iterating the file, with their
\* line terminators; exists = FALSE is the FileNotFoundError case.
NL == "\n"
FileMissing == [exists |-> FALSE, lines |-> <<>>]
FileEmpty == [exists |-> TRUE, lines |-> <<>>]
FileA ==
    [exists |-> TRUE,
     lines |-> << <<"A", "u", "d", "i", "o", NL>>,
                  <<"t", "e", "a", NL>>,
                  <<"r", "e", "b", "e", "l", NL>>,
                  <<" ", "a", "p", "p", "l", "e">> >>]
FileB ==
    [exists |-> TRUE,
     lines |-> << <<"a", "u", "d", "i", "o", NL>>,
                  <<"t", "e", "a", "s", "e", NL>>,
                  <<"a", "u", "d", "i", "o", NL>> >>]
WordFiles == {FileMissing, FileEmpty, FileA, FileB}

\* Boards a caller can hand over that are not well formed: a guess of three
\* letters, a feedback row of three tiles, a row of six tiles, and a row with
\* a tile value that is none of the three colours.
ShortGuess == <<"t", "e", "a">>
ShortRow == <<"grey", "yellow", "green">>
LongRow == <<"grey", "grey", "grey", "grey", "grey", "green">>
UnknownTileRow == Row("grey", "gray", "grey", "grey", "green")
OddGuesses == {Tease, ShortGuess}
OddRows ==
    { Row("yellow", "grey", "grey", "grey", "green"),
      ShortRow, LongRow, UnknownTileRow }

\* wordlist.txt as the two drivers read it (file.read().splitlines()), and the
\* guesses the agent or the oracle comes back with: words for which
\* is_valid_guess holds.  "apple" and "tease" repeat a letter, "rebel" is
\* never guessed, so that a board can stay unsolved.
DriverWordlist == <<Tease, Audio, Rebel, Apple>>
DriverGuesses == {Tease, Audio, Apple}

\* The two-board fixture: targets, guesses, rows and a word file that holds
\* the candidate "crate" next to the two guesses.
Crane == <<"c", "r", "a", "n", "e">>
Ghost == <<"g", "h", "o", "s", "t">>
Trace == <<"t", "r", "a", "c", "e">>
Crate == <<"c", "r", "a", "t", "e">>
GoldenTargets == <<Crane, Ghost>>
GoldenGuesses == {Trace, Audio}
GoldenRows ==
    { Row("grey", "yellow", "yellow", "yellow", "green"),
      Row("grey", "grey", "grey", "grey", "yellow"),
      Row("grey", "grey", "grey", "grey", "grey"),
      Row("green", "green", "green", "green", "green") }
FileGolden ==
    [exists |-> TRUE,
     lines |-> << <<"c", "r", "a", "t", "e", NL>>,
                  <<"t", "r", "a", "c", "e", NL>>,
                  <<"a", "u", "d", "i", "o", NL>> >>]

\* Words tested by direct calls of is_word_valid_for_game.
CheckWords == {Tease, Audio, Rebel, Apple}

\* ------------------------------------------------------------------- state
VARIABLES
    game_states,        \* the boards: target_word, guesses, feedback
    call,               \* the call that returned last ("none" before any)
    game_arg,           \* index of the board given to extract_game_knowledge
    knowledge,          \* extract_game_knowledge's return value
    word,               \* the word given to is_word_valid_for_game
    valid,              \* is_word_valid_for_game's return value
    wordlist,           \* impersonate_guesser: the loaded word list
    candidate_words,    \* impersonate_guesser: the random sample
    analysis_results,   \* impersonate_guesser: the returned list
    great_guesses,      \* build_reasoning_report: the three tiers
    good_guesses,
    bad_guesses,
    reasoning_report,   \* the returned report
    raised,             \* the exception the last call ended with, or "none"
    pc,                 \* the driver that owns the boards and where it stands
    turn,               \* the driver's loop variable `turn`: iterations done
    sim                 \* generate_training_data's loop variable `i`

vars == <<game_states, call, game_arg, knowledge, word, valid, wordlist, candidate_words,
          analysis_results, great_guesses, good_guesses, bad_guesses,
          reasoning_report, raised, pc, turn, sim>>

\* The driver's own state, which the functions of impersonate_guesser.py do
\* not see.
driver == <<pc, turn, sim>>

\* ------------------------------------------------------------ load_wordlist
Whitespace == {" ", NL}

RECURSIVE lstrip(_)
lstrip(line) ==
    IF line # <<>> /\ Head(line) \in Whitespace THEN lstrip(Tail(line)) ELSE line

RECURSIVE rstrip(_)
rstrip(line) ==
    IF line # <<>> /\ line[Len(line)] \in Whitespace
    THEN rstrip(SubSeq(line, 1, Len(line) - 1))
    ELSE line

strip(line) == rstrip(lstrip(line))

lower_char(c) ==
    CASE c = "A" -> "a"
      [] c = "T" -> "t"
      [] c = "R" -> "r"
      [] OTHER -> c

lower(line) == [i \in 1..Len(line) |-> lower_char(line[i])]

RECURSIVE load_lines(_)
load_lines(lines) ==
    IF lines = <<>> THEN <<>>
    ELSE IF Len(strip(Head(lines))) = WORD_LENGTH
         THEN <<lower(strip(Head(lines)))>> \o load_lines(Tail(lines))
         ELSE load_lines(Tail(lines))

load_wordlist(file) == IF file.exists THEN load_lines(file.lines) ELSE <<>>

\* --------------------------------------------------- extract_game_knowledge
set(w) == {w[i] : i \in DOMAIN w}

\* The (guess index, 0-based position) pairs the double loop visits.
TilesOf(game) ==
    UNION {{<<i, j>> : j \in 0..(Len(game.guesses[i]) - 1)} :
              i \in DOMAIN game.guesses}

LettersWith(game, colour) ==
    {game.guesses[t[1]][t[2] + 1] :
        t \in {u \in TilesOf(game) : game.feedback[u[1]][u[2] + 1] = colour}}

\* feedback_history[i] or feedback[j] is read past the end of its list
\* (IndexError) when a guess has no feedback row or more letters than its row.
extract_raises(game) ==
    \E i \in DOMAIN game.guesses :
        \/ i \notin DOMAIN game.feedback
        \/ Len(game.guesses[i]) > Len(game.feedback[i])

GreenLetters(game) ==
    [letter \in LettersWith(game, "green") |->
        {t[2] : t \in {u \in TilesOf(game) :
                          /\ game.feedback[u[1]][u[2] + 1] = "green"
                          /\ game.guesses[u[1]][u[2] + 1] = letter}}]

\* Variant: the provisional grey set is returned as collected.
GreyUncorrected(provisional, yellow, green) == provisional

GreyAfterCorrection(provisional, yellow, green) ==
    (provisional \ yellow) \ (DOMAIN green)

extract_game_knowledge(game) ==
    LET green == GreenLetters(game)
        yellow == LettersWith(game, "yellow")
        grey == GreyAfterCorrection(LettersWith(game, "grey"), yellow, green)
    IN  [grey_letters |-> grey,
         yellow_letters |-> yellow,
         green_letters |-> green,
         all_known_letters |-> grey \cup yellow \cup (DOMAIN green)]

NoKnowledge ==
    [grey_letters |-> {}, yellow_letters |-> {}, green_letters |-> <<>>,
     all_known_letters |-> {}]

\* --------------------------------------------------- is_word_valid_for_game
\* Variant: the yellow rule is left out.
is_word_valid_without_yellow(w, k) ==
    IF k.grey_letters \cap set(w) # {} THEN FALSE
    ELSE \A letter \in DOMAIN k.green_letters :
            \A pos \in k.green_letters[letter] : w[pos + 1] = letter

is_word_valid_for_game(w, k) ==
    IF k.grey_letters \cap set(w) # {} THEN FALSE
    ELSE IF ~(k.yellow_letters \subseteq set(w)) THEN FALSE
    ELSE \A letter \in DOMAIN k.green_letters :
            \A pos \in k.green_letters[letter] : w[pos + 1] = letter

\* ------------------------------------------------------- impersonate_guesser
Min(a, b) == IF a <= b THEN a ELSE b

\* random.sample(wordlist, k): k distinct positions of the list, in any order.
Samples(n, k) ==
    {s \in [1..k -> 1..n] : \A i, j \in 1..k : i # j => s[i] # s[j]}

\* Variant: only the boards still being scored count as guessed on.
previously_guessed_on_open_boards(games) ==
    UNION {set(games[b].guesses) :
              b \in {c \in DOMAIN games :
                        ~(/\ games[c].guesses # <<>>
                          /\ games[c].guesses[Len(games[c].guesses)]
                                = games[c].target_word)}}

previously_guessed(games) ==
    UNION {set(games[b].guesses) : b \in DOMAIN games}

\* Variant: sampled words are never skipped.
is_never_skipped(w, guessed) == FALSE

is_previously_guessed(w, guessed) == w \in guessed

\* Variant: the last guess is taken off the board to be compared.
game_after_pop(game) ==
    IF game.guesses = <<>> THEN game
    ELSE [game EXCEPT !.guesses = SubSeq(@, 1, Len(@) - 1)]

\* A board after the scoring loop has looked at it: game.get("guesses"),
\* game["guesses"][-1], game["target_word"] and the reads of
\* extract_game_knowledge take nothing from it and put nothing on it.
game_after_scoring(game) == game

\* Variant: won boards are scored like the others.
game_is_never_won(game) == FALSE

\* Variant: a board that has used up its guesses is skipped as well.
game_is_won_or_exhausted(game) ==
    \/ game.guesses # <<>> /\ game.guesses[Len(game.guesses)] = game.target_word
    \/ Len(game.guesses) >= MAX_GUESSES

\* The test that makes the scoring loop skip a board.
game_is_won(game) ==
    game.guesses # <<>> /\ game.guesses[Len(game.guesses)] = game.target_word

\* Variant: every letter of the word counts as new.
new_letters_unfiltered(w, k) == set(w)

new_letters(w, k) == set(w) \ k.all_known_letters

\* Variant: every occurrence of a letter in the word is counted.
reused_per_occurrence(w, letters) ==
    Cardinality({i \in DOMAIN w : w[i] \in letters})

\* len(word_letters.intersection(letters)), word_letters = set(word)
reused(w, letters) == Cardinality(set(w) \cap letters)

ZeroDetails ==
    [valid_for_n_games |-> 0, total_new_letters |-> 0, total_reused_grey |-> 0,
     total_reused_yellow |-> 0, total_reused_green |-> 0]

\* One pass of the inner loop: the totals after looking at one board.
score_game(w, g, d) ==
    IF game_is_won(g) THEN d
    ELSE LET k == extract_game_knowledge(g)
         IN  [valid_for_n_games |->
                 d.valid_for_n_games
                   + (IF is_word_valid_for_game(w, k) THEN 1 ELSE 0),
              total_new_letters |->
                 d.total_new_letters + Cardinality(new_letters(w, k)),
              total_reused_grey |->
                 d.total_reused_grey + reused(w, k.grey_letters),
              total_reused_yellow |->
                 d.total_reused_yellow + reused(w, k.yellow_letters),
              total_reused_green |->
                 d.total_reused_green
                   + reused(w, DOMAIN k.green_letters)]

RECURSIVE score_games(_, _, _)
score_games(w, games, d) ==
    IF games = <<>> THEN d
    ELSE score_games(w, Tail(games), score_game(w, Head(games), d))

\* Variant: reused yellow letters earn a point each.
heuristic_score_with_yellow(d) ==
    (d.valid_for_n_games * 20) + (d.total_new_letters * 3)
      - (d.total_reused_grey * 10) + (d.total_reused_yellow * 2)

\* The heuristic score, in half points.
heuristic_score(d) ==
    (d.valid_for_n_games * 20) + (d.total_new_letters * 3)
      - (d.total_reused_grey * 10)

analyse_word(w, games) ==
    LET d == score_games(w, games, ZeroDetails)
    IN  [word |-> w, score |-> heuristic_score(d), details |-> d]

RECURSIVE analyse_candidates(_, _, _)
analyse_candidates(cands, games, guessed) ==
    IF cands = <<>> THEN <<>>
    ELSE IF is_previously_guessed(Head(cands), guessed)
         THEN analyse_candidates(Tail(cands), games, guessed)
         ELSE <<analyse_word(Head(cands), games)>>
                \o analyse_candidates(Tail(cands), games, guessed)

\* list.sort(key=score, reverse=True): stable, equal scores keep their order.
RECURSIVE insert_by_score(_, _)
insert_by_score(sorted, r) ==
    IF sorted = <<>> THEN <<r>>
    ELSE IF Head(sorted).score >= r.score
         THEN <<Head(sorted)>> \o insert_by_score(Tail(sorted), r)
         ELSE <<r>> \o sorted

RECURSIVE sort_from(_, _)
sort_from(sorted, rest) ==
    IF rest = <<>> THEN sorted
    ELSE sort_from(insert_by_score(sorted, Head(rest)), Tail(rest))

\* Variant: the list is returned in sampling order.
sort_skipped(results) == results

sort_by_score(results) == sort_from(<<>>, results)

\* ---------------------------------------------------- build_reasoning_report
\* The substitute range 1 is one point, two half points.
score_range(max_score, min_score) ==
    IF max_score # min_score THEN max_score - min_score ELSE 2

\* num / den >= p / q for the float quotient num / den (den # 0, q > 0).  The
\* operands are small multiples of 0.5, so the correctly rounded quotient
\* compares with the literals 0.8 and 0.5 as the exact quotient does.
quotient_at_least(num, den, p, q) ==
    IF den > 0 THEN num * q >= p * den ELSE num * q <= p * den

\* Variant: the two thresholds are exchanged.
tier_of_thresholds_exchanged(score, min_score, range) ==
    IF quotient_at_least(score - min_score, range, 1, 2) THEN "great"
    ELSE IF quotient_at_least(score - min_score, range, 4, 5) THEN "good"
    ELSE "bad"

\* Variant: the score is normalised without subtracting the minimum.
tier_of_raw_score(score, min_score, range) ==
    IF quotient_at_least(score, range, 4, 5) THEN "great"
    ELSE IF quotient_at_least(score, range, 1, 2) THEN "good"
    ELSE "bad"

tier_of(score, min_score, range) ==
    IF quotient_at_least(score - min_score, range, 4, 5) THEN "great"
    ELSE IF quotient_at_least(score - min_score, range, 1, 2) THEN "good"
    ELSE "bad"

words_of(results) == [i \in 1..Len(results) |-> results[i].word]

build_reasoning_report(results) ==
    LET max_score == results[1].score
        min_score == results[Len(results)].score
        range == score_range(max_score, min_score)
        InTier(t) ==
            IF results # <<>>
            THEN SelectSeq(results, LAMBDA r : tier_of(r.score, min_score, range) = t)
            ELSE <<>>
        great == InTier("great")
        good == InTier("good")
        bad == InTier("bad")
    IN  [great_guesses |-> great, good_guesses |-> good, bad_guesses |-> bad,
         report |-> [kind |-> "reasoning",
                     greats |-> words_of(great),
                     goods |-> words_of(good),
                     bads |-> words_of(bad)]]

\* Variant: the report takes the entries off the list as it describes them.
results_consumed_by_report(results) == <<>>

\* The result list after build_reasoning_report has gone through it: the
\* function reads result["word"], result["score"] and result["details"] and
\* appends the entries to its own three lists.
results_after_report(results) == results

NoReport == [kind |-> "none", greats |-> <<>>, goods |-> <<>>, bads |-> <<>>]
NoWordlistLoaded ==
    [kind |-> "No wordlist loaded.", greats |-> <<>>, goods |-> <<>>, bads |-> <<>>]

\* ------------------------------------------------------------------ actions
NewGame(target) == [target_word |-> target, guesses |-> <<>>, feedback |-> <<>>]

TotalGuesses ==
    LET RECURSIVE Sum(_)
        Sum(b) == IF b = 0 THEN 0 ELSE Len(game_states[b].guesses) + Sum(b - 1)
    IN  Sum(Len(game_states))

NoScoring ==
    /\ wordlist' = <<>>
    /\ candidate_words' = <<>>
    /\ analysis_results' = <<>>
    /\ great_guesses' = <<>>
    /\ good_guesses' = <<>>
    /\ bad_guesses' = <<>>
    /\ reasoning_report' = NoReport

\* The values a call returned are gone once the caller moves on.
NoOutputs ==
    /\ raised' = "none"
    /\ game_arg' = 0
    /\ knowledge' = NoKnowledge
    /\ word' = <<>>
    /\ valid' = FALSE
    /\ NoScoring

\* No call has been made and no driver is running.
Idle ==
    /\ call = "none"
    /\ game_arg = 0
    /\ knowledge = NoKnowledge
    /\ word = <<>>
    /\ valid = FALSE
    /\ wordlist = <<>>
    /\ candidate_words = <<>>
    /\ analysis_results = <<>>
    /\ great_guesses = <<>>
    /\ good_guesses = <<>>
    /\ bad_guesses = <<>>
    /\ reasoning_report = NoReport
    /\ raised = "none"
    /\ pc = "caller"
    /\ turn = 0
    /\ sim = 0

Init ==
    /\ game_states = [b \in 1..NumBoards |-> NewGame(TargetOf(b))]
    /\ Idle

\* The caller records a guess and its feedback row on one board.
RecordGuess(b, guess, row) ==
    /\ call = "none"
    /\ TotalGuesses < MaxTurns
    /\ game_states' =
          [game_states EXCEPT
             ![b].guesses = Append(@, guess),
             ![b].feedback = Append(@, row)]
    /\ call' = "none"
    /\ NoOutputs
    /\ UNCHANGED driver

\* knowledge = extract_game_knowledge(game_states[b]); the call ends with an
\* IndexError and returns nothing when a read runs past a list.
ExtractGameKnowledge(b) ==
    /\ call = "none"
    /\ call' = "extract_game_knowledge"
    /\ game_arg' = b
    /\ IF extract_raises(game_states[b])
       THEN /\ raised' = "IndexError"
            /\ knowledge' = NoKnowledge
       ELSE /\ raised' = "none"
            /\ knowledge' = extract_game_knowledge(game_states[b])
    /\ word' = <<>>
    /\ valid' = FALSE
    /\ NoScoring
    /\ UNCHANGED <<game_states, driver>>

\* valid = is_word_valid_for_game(w, knowledge), on an extracted knowledge
IsWordValidForGame(w) ==
    /\ call = "extract_game_knowledge"
    /\ raised = "none"
    /\ call' = "is_word_valid_for_game"
    /\ word' = w
    /\ valid' = is_word_valid_for_game(w, knowledge)
    /\ UNCHANGED <<game_states, game_arg, knowledge, wordlist, candidate_words,
                   analysis_results, great_guesses, good_guesses, bad_guesses,
                   reasoning_report, raised, driver>>

\* analysis_results, reasoning_report = impersonate_guesser(game_states), with
\* wordlist.txt holding `file` and random.sample drawing the positions `sample`.
ImpersonateGuesser(file, sample) ==
    LET loaded == load_wordlist(file)
    IN  /\ call = "none"
        /\ call' = "impersonate_guesser"
        /\ wordlist' = loaded
        /\ game_arg' = 0
        /\ knowledge' = NoKnowledge
        /\ word' = <<>>
        /\ valid' = FALSE
        /\ raised' = "none"
        /\ game_states' = [b \in DOMAIN game_states |-> game_after_scoring(game_states[b])]
        /\ UNCHANGED driver
        /\ IF loaded = <<>>
           THEN /\ sample = <<>>
                /\ candidate_words' = <<>>
                /\ analysis_results' = <<>>
                /\ great_guesses' = <<>>
                /\ good_guesses' = <<>>
                /\ bad_guesses' = <<>>
                /\ reasoning_report' = NoWordlistLoaded
           ELSE /\ sample \in Samples(Len(loaded), Min(NUM_CANDIDATES, Len(loaded)))
                /\ LET cands == [i \in 1..Len(sample) |-> loaded[sample[i]]]
                       results ==
                           sort_by_score(
                               analyse_candidates(
                                   cands, game_states,
                                   previously_guessed(game_states)))
                       rep == build_reasoning_report(results)
                   IN  /\ candidate_words' = cands
                       /\ analysis_results' = results_after_report(results)
                       /\ great_guesses' = rep.great_guesses
                       /\ good_guesses' = rep.good_guesses
                       /\ bad_guesses' = rep.bad_guesses
                       /\ reasoning_report' = rep.report

\* The caller is done with the values the last call returned.
Resume ==
    /\ call # "none"
    /\ call' = "none"
    /\ NoOutputs
    /\ UNCHANGED <<game_states, driver>>

SampleInputs(file) ==
    LET n == Len(load_wordlist(file))
    IN  IF n = 0 THEN {<<>>} ELSE Samples(n, Min(NUM_CANDIDATES, n))

\* A scoring session: the caller fills the boards and has them scored.
Next ==
    \/ \E b \in 1..NumBoards, guess \in GuessWords, row \in FeedbackRows :
          RecordGuess(b, guess, row)
    \/ \E file \in WordFiles :
          \E sample \in SampleInputs(file) : ImpersonateGuesser(file, sample)
    \/ Resume

Spec == Init /\ [][Next]_vars

\* The two single-board functions, called on one board whose first feedback
\* row is any of the 3^5 rows.
NextKnowledge ==
    \/ \E guess \in GuessWords, row \in AllRows :
          TotalGuesses = 0 /\ RecordGuess(1, guess, row)
    \/ \E guess \in GuessWords, row \in FeedbackRows :
          TotalGuesses > 0 /\ RecordGuess(1, guess, row)
    \/ ExtractGameKnowledge(1)
    \/ \E w \in CheckWords : IsWordValidForGame(w)
    \/ Resume

SpecKnowledge == Init /\ [][NextKnowledge]_vars

\* Every function of impersonate_guesser.py called on boards the caller fills.
NextCalls ==
    \/ \E b \in 1..NumBoards, guess \in GuessWords, row \in FeedbackRows :
          RecordGuess(b, guess, row)
    \/ \E b \in 1..NumBoards : ExtractGameKnowledge(b)
    \/ \E w \in CheckWords : IsWordValidForGame(w)
    \/ \E file \in WordFiles :
          \E sample \in SampleInputs(file) : ImpersonateGuesser(file, sample)
    \/ Resume

SpecCalls == Init /\ [][NextCalls]_vars

\* A session on the boards of the fixture.
InitGolden ==
    /\ game_states = [b \in DOMAIN GoldenTargets |-> NewGame(GoldenTargets[b])]
    /\ Idle

NextGolden ==
    \/ \E b \in DOMAIN GoldenTargets, guess \in GoldenGuesses, row \in GoldenRows :
          RecordGuess(b, guess, row)
    \/ \E sample \in SampleInputs(FileGolden) : ImpersonateGuesser(FileGolden, sample)
    \/ Resume

SpecGolden == InitGolden /\ [][NextGolden]_vars

\* ------------------------------------------------------------- the drivers
\* generate_feedback(guess, target_word), the same code in prompt_gen_eval.py
\* and train_data_generator.py.  None marks a letter that has been used.
None == "None"

\* The lists after the first pass: letters equal in place are used up.
after_green_pass(own, other) ==
    [i \in 1..WORD_LENGTH |-> IF own[i] = other[i] THEN None ELSE own[i]]

\* target_list.index(letter): the first position holding the letter.
index(list, letter) ==
    CHOOSE k \in DOMAIN list :
        /\ list[k] = letter
        /\ \A m \in DOMAIN list : list[m] = letter => k <= m

RECURSIVE second_pass(_, _, _, _)
second_pass(i, guess_list, target_list, feedback) ==
    IF i > WORD_LENGTH THEN feedback
    ELSE IF guess_list[i] = None
    THEN second_pass(i + 1, guess_list, target_list, feedback)
    ELSE IF \E k \in DOMAIN target_list : target_list[k] = guess_list[i]
    THEN second_pass(i + 1, guess_list,
                     [target_list EXCEPT ![index(target_list, guess_list[i])] = None],
                     [feedback EXCEPT ![i] = "yellow"])
    ELSE second_pass(i + 1, guess_list, target_list,
                     [feedback EXCEPT ![i] = "grey"])

\* Variant: a letter that is not in its place is grey, in the target or not.
generate_feedback_in_place_only(guess, target_word) ==
    [i \in 1..WORD_LENGTH |-> IF guess[i] = target_word[i] THEN "green" ELSE "grey"]

generate_feedback(guess, target_word) ==
    second_pass(1, after_green_pass(guess, target_word),
                after_green_pass(target_word, guess),
                [i \in 1..WORD_LENGTH |->
                    IF guess[i] = target_word[i] THEN "green" ELSE ""])

\* Variant: the guess is recorded without its feedback row.
play_guess_only(game, guess) == [game EXCEPT !.guesses = Append(@, guess)]

\* game["guesses"].append(guess); game["feedback"].append(feedback)
play(game, guess) ==
    [game EXCEPT !.guesses = Append(@, guess),
                 !.feedback = Append(@, generate_feedback(guess, game.target_word))]

\* Variant: only the number of guesses ends a game.
is_game_over_by_count(game) == Len(game.guesses) >= MAX_GUESSES

is_game_over(game) ==
    \/ game.guesses # <<>> /\ game.guesses[Len(game.guesses)] = game.target_word
    \/ Len(game.guesses) >= MAX_GUESSES

\* initialize_games(): random.sample(words, n) as n distinct positions; the
\* number of boards of a session is NumBoards here.
initialize_games(sample) == [b \in DOMAIN sample |-> NewGame(DriverWordlist[sample[b]])]

\* Variant: the loop is left as soon as one board is over.
any_over(games) == \E b \in DOMAIN games : is_game_over(games[b])

all_over(games) == \A b \in DOMAIN games : is_game_over(games[b])
all_won(games) == \A b \in DOMAIN games : game_is_won(games[b])

\* Before a driver starts there are no boards.
InitDrivers ==
    /\ game_states = <<>>
    /\ Idle

\* run_single_rollout, up to the turn loop
RunSingleRollout(sample) ==
    /\ pc = "caller"
    /\ pc' = "run_single_rollout"
    /\ game_states' = initialize_games(sample)
    /\ turn' = 0
    /\ UNCHANGED <<call, game_arg, knowledge, word, valid, wordlist, candidate_words,
                   analysis_results, great_guesses, good_guesses, bad_guesses,
                   reasoning_report, raised, sim>>

\* One iteration of run_single_rollout's turn loop.
RolloutTurn(guess) ==
    /\ pc = "run_single_rollout"
    /\ turn < MAX_GUESSES
    /\ ~all_over(game_states)
    /\ game_states' =
          [b \in DOMAIN game_states |->
              IF ~is_game_over(game_states[b])
              THEN play(game_states[b], guess)
              ELSE game_states[b]]
    /\ turn' = turn + 1
    /\ UNCHANGED <<call, game_arg, knowledge, word, valid, wordlist, candidate_words,
                   analysis_results, great_guesses, good_guesses, bad_guesses,
                   reasoning_report, raised, pc, sim>>

\* The turn loop is left, by the break or after its last iteration, and
\* run_single_rollout returns the boards.
RolloutReturn ==
    /\ pc = "run_single_rollout"
    /\ turn = MAX_GUESSES \/ all_over(game_states)
    /\ pc' = "returned"
    /\ UNCHANGED <<game_states, call, game_arg, knowledge, word, valid, wordlist,
                   candidate_words, analysis_results, great_guesses, good_guesses,
                   bad_guesses, reasoning_report, raised, turn, sim>>

\* generate_training_data(num_simulations = MaxSims), up to the outer loop
GenerateTrainingData ==
    /\ pc = "caller"
    /\ pc' = "generate_training_data"
    /\ sim' = 0
    /\ UNCHANGED <<game_states, call, game_arg, knowledge, word, valid, wordlist,
                   candidate_words, analysis_results, great_guesses, good_guesses,
                   bad_guesses, reasoning_report, raised, turn>>

\* An iteration of the outer loop starts: new boards, current_guess = "audio".
StartSimulation(sample) ==
    /\ pc = "generate_training_data"
    /\ sim < MaxSims
    /\ pc' = "simulation"
    /\ game_states' = initialize_games(sample)
    /\ turn' = 0
    /\ UNCHANGED <<call, game_arg, knowledge, word, valid, wordlist, candidate_words,
                   analysis_results, great_guesses, good_guesses, bad_guesses,
                   reasoning_report, raised, sim>>

\* One iteration of generate_training_data's turn loop with current_guess =
\* guess, which is "audio" in the first turn and the oracle's word later; the
\* loop is left by the break or after its last iteration.
TrainingTurn(guess) ==
    /\ pc = "simulation"
    /\ turn < MAX_GUESSES
    /\ turn = 0 => guess = Audio
    /\ LET games == [b \in DOMAIN game_states |->
                        IF ~game_is_won(game_states[b])
                        THEN play(game_states[b], guess)
                        ELSE game_states[b]]
       IN  /\ game_states' = games
           /\ turn' = turn + 1
           /\ IF all_won(games) \/ turn + 1 = MAX_GUESSES
              THEN pc' = "generate_training_data" /\ sim' = sim + 1
              ELSE UNCHANGED <<pc, sim>>
    /\ UNCHANGED <<call, game_arg, knowledge, word, valid, wordlist, candidate_words,
                   analysis_results, great_guesses, good_guesses, bad_guesses,
                   reasoning_report, raised>>

\* The outer loop is over and generate_training_data returns.
TrainingReturn ==
    /\ pc = "generate_training_data"
    /\ sim = MaxSims
    /\ pc' = "returned"
    /\ UNCHANGED <<game_states, call, game_arg, knowledge, word, valid, wordlist,
                   candidate_words, analysis_results, great_guesses, good_guesses,
                   bad_guesses, reasoning_report, raised, turn, sim>>

\* The two drivers, each run from a state without boards.
NextDrivers ==
    \/ \E sample \in Samples(Len(DriverWordlist), NumBoards) : RunSingleRollout(sample)
    \/ \E guess \in DriverGuesses : RolloutTurn(guess)
    \/ RolloutReturn
    \/ GenerateTrainingData
    \/ \E sample \in Samples(Len(DriverWordlist), NumBoards) : StartSimulation(sample)
    \/ \E guess \in DriverGuesses : TrainingTurn(guess)
    \/ TrainingReturn

SpecDrivers == InitDrivers /\ [][NextDrivers]_vars

\* run_single_rollout alone; the function runs on its own thread of control,
\* so a step that can be taken is taken.
NextRollout ==
    \/ \E sample \in Samples(Len(DriverWordlist), NumBoards) : RunSingleRollout(sample)
    \/ \E guess \in DriverGuesses : RolloutTurn(guess)
    \/ RolloutReturn

SpecRollout == InitDrivers /\ [][NextRollout]_vars /\ WF_vars(NextRollout)

\* A rollout whose boards are read between two turns: the knowledge of a
\* board is extracted and the board's own target is tested against it.
TurnBetweenCalls(guess) ==
    /\ call = "none"
    /\ RolloutTurn(guess)

ReadBoard(b) ==
    /\ b \in DOMAIN game_states
    /\ ExtractGameKnowledge(b)

IsTargetValidForGame ==
    /\ game_arg \in DOMAIN game_states
    /\ IsWordValidForGame(game_states[game_arg].target_word)

NextSoundness ==
    \/ \E sample \in Samples(Len(DriverWordlist), NumBoards) : RunSingleRollout(sample)
    \/ \E guess \in DriverGuesses : TurnBetweenCalls(guess)
    \/ \E b \in 1..NumBoards : ReadBoard(b)
    \/ IsTargetValidForGame
    \/ Resume

SpecSoundness == InitDrivers /\ [][NextSoundness]_vars

\* apply_guess_to_games(guess, game_states)
apply_guess_to_games(guess, games) ==
    [b \in DOMAIN games |->
        IF /\ Len(games[b].guesses) < MAX_GUESSES
           /\ games[b].guesses # <<>>
           /\ games[b].guesses[Len(games[b].guesses)] # games[b].target_word
        THEN play(games[b], guess)
        ELSE games[b]]

\* A caller gets its boards from initialize_games.
InitializeGames(sample) ==
    /\ pc = "caller"
    /\ call = "none"
    /\ game_states = <<>>
    /\ game_states' = initialize_games(sample)
    /\ UNCHANGED <<call, game_arg, knowledge, word, valid, wordlist, candidate_words,
                   analysis_results, great_guesses, good_guesses, bad_guesses,
                   reasoning_report, raised, driver>>

\* The caller plays the starting guess "audio" on one board itself.
FirstGuess(b) ==
    /\ pc = "caller"
    /\ call = "none"
    /\ b \in DOMAIN game_states
    /\ TotalGuesses < MaxTurns
    /\ game_states' = [game_states EXCEPT ![b] = play(@, Audio)]
    /\ UNCHANGED <<call, game_arg, knowledge, word, valid, wordlist, candidate_words,
                   analysis_results, great_guesses, good_guesses, bad_guesses,
                   reasoning_report, raised, driver>>

ApplyGuessToGames(guess) ==
    /\ pc = "caller"
    /\ call = "none"
    /\ game_states # <<>>
    /\ call' = "apply_guess_to_games"
    /\ game_states' = apply_guess_to_games(guess, game_states)
    /\ UNCHANGED <<game_arg, knowledge, word, valid, wordlist, candidate_words,
                   analysis_results, great_guesses, good_guesses, bad_guesses,
                   reasoning_report, raised, driver>>

\* apply_guess_to_games called on boards of initialize_games, fresh or played.
NextApply ==
    \/ \E sample \in Samples(Len(DriverWordlist), NumBoards) : InitializeGames(sample)
    \/ \E b \in 1..NumBoards : FirstGuess(b)
    \/ \E guess \in GuessWords : ApplyGuessToGames(guess)
    \/ Resume

SpecApply == InitDrivers /\ [][NextApply]_vars

\* The boards a rollout returns are scored by impersonate_guesser.
ScoreReturnedBoards(file, sample) ==
    /\ pc = "returned"
    /\ ImpersonateGuesser(file, sample)

NextScoreAfterRollout ==
    \/ \E sample \in Samples(Len(DriverWordlist), NumBoards) : RunSingleRollout(sample)
    \/ \E guess \in GuessWords : RolloutTurn(guess)
    \/ RolloutReturn
    \/ \E file \in WordFiles :
          \E sample \in SampleInputs(file) : ScoreReturnedBoards(file, sample)
    \/ Resume

SpecScoreAfterRollout == InitDrivers /\ [][NextScoreAfterRollout]_vars

\* The caller puts a guess on a board without a feedback row.
RecordGuessOnly(b, guess) ==
    /\ call = "none"
    /\ Len(game_states[b].guesses) < MaxTurns
    /\ game_states' = [game_states EXCEPT ![b].guesses = Append(@, guess)]
    /\ call' = "none"
    /\ NoOutputs
    /\ UNCHANGED driver

\* The caller puts a feedback row on a board without a guess.
RecordFeedbackOnly(b, row) ==
    /\ call = "none"
    /\ Len(game_states[b].feedback) < MaxTurns
    /\ game_states' = [game_states EXCEPT ![b].feedback = Append(@, row)]
    /\ call' = "none"
    /\ NoOutputs
    /\ UNCHANGED driver

\* extract_game_knowledge called on one board that the caller fills with
\* histories of any shape.
NextMalformed ==
    \/ \E guess \in OddGuesses, row \in OddRows : RecordGuess(1, guess, row)
    \/ \E guess \in OddGuesses : RecordGuessOnly(1, guess)
    \/ \E row \in OddRows : RecordFeedbackOnly(1, row)
    \/ ExtractGameKnowledge(1)
    \/ Resume

SpecMalformed == Init /\ [][NextMalformed]_vars

\* ================================================================== claims
\* Tiles of a board's history, read directly off the board: <<i, p>> is the
\* p-th letter (1-based) of the i-th guess.
HistoryTiles(g) == {<<i, p>> \in (DOMAIN g.guesses) \X (1..WORD_LENGTH) : TRUE}
TileLetter(g, t) == g.guesses[t[1]][t[2]]
TileColour(g, t) == g.feedback[t[1]][t[2]]

KnowledgeReturned == call \in {"extract_game_knowledge", "is_word_valid_for_game"}

\* C1: after extraction grey_letters is disjoint from yellow_letters and from
\* the keys of green_letters, and no letter that is yellow or green on any
\* tile of the history is in grey_letters, whatever the other tiles say.
C1_PartitionInvariant ==
    KnowledgeReturned =>
        /\ knowledge.grey_letters \cap knowledge.yellow_letters = {}
        /\ knowledge.grey_letters \cap (DOMAIN knowledge.green_letters) = {}
        /\ \A t \in HistoryTiles(game_states[game_arg]) :
              TileColour(game_states[game_arg], t) \in {"yellow", "green"}
                => TileLetter(game_states[game_arg], t) \notin knowledge.grey_letters

\* A letter reported grey on one tile and yellow or green on another.
C1_Witness ==
    /\ call = "extract_game_knowledge"
    /\ \E t, u \in HistoryTiles(game_states[game_arg]) :
          /\ TileLetter(game_states[game_arg], t) = TileLetter(game_states[game_arg], u)
          /\ TileColour(game_states[game_arg], t) = "grey"
          /\ TileColour(game_states[game_arg], u) \in {"yellow", "green"}
          /\ t[1] # u[1]

\* The three rules of the validity filter, stated on the word's positions.
NoGreyLetter(w, k) == \A i \in DOMAIN w : w[i] \notin k.grey_letters
EveryYellowLetter(w, k) == \A y \in k.yellow_letters : \E i \in DOMAIN w : w[i] = y
GreenInPlace(w, k) ==
    \A l \in DOMAIN k.green_letters :
        \A i \in DOMAIN w : (i - 1) \in k.green_letters[l] => w[i] = l

\* C2: is_word_valid_for_game returns true exactly when the word has no grey
\* letter, has every yellow letter somewhere and has every green letter at
\* its recorded positions; nothing else is enforced.
C2_ValidIffThreeRules ==
    call = "is_word_valid_for_game" =>
        (valid <=> /\ NoGreyLetter(word, knowledge)
                   /\ EveryYellowLetter(word, knowledge)
                   /\ GreenInPlace(word, knowledge))

\* A valid word that holds a yellow letter at the position where it was
\* marked yellow.
C2_Witness ==
    /\ call = "is_word_valid_for_game"
    /\ valid
    /\ \E t \in HistoryTiles(game_states[game_arg]) :
          /\ TileColour(game_states[game_arg], t) = "yellow"
          /\ word[t[2]] = TileLetter(game_states[game_arg], t)

\* ----------------------------------------------------------------- scorer
Returned == call = "impersonate_guesser"

Results == {analysis_results[i] : i \in DOMAIN analysis_results}

\* C3: every returned candidate has score = 10 valid + 1.5 new - 5 grey (here
\* in half points); reused yellow and green letters have no influence, one
\* more new letter is worth 1.5 and one more reused grey letter costs 5.
C3_ScoreFormula ==
    Returned =>
        /\ \A r \in Results :
              r.score = 20 * r.details.valid_for_n_games
                          + 3 * r.details.total_new_letters
                          - 10 * r.details.total_reused_grey
        /\ \A r, q \in Results :
              /\ r.details.valid_for_n_games = q.details.valid_for_n_games
              /\ r.details.total_reused_grey = q.details.total_reused_grey
              /\ r.details.total_new_letters = q.details.total_new_letters + 1
              => r.score = q.score + 3
        /\ \A r, q \in Results :
              /\ r.details.valid_for_n_games = q.details.valid_for_n_games
              /\ r.details.total_new_letters = q.details.total_new_letters
              /\ r.details.total_reused_grey = q.details.total_reused_grey + 1
              => r.score = q.score - 10

\* Two candidates of one list that differ by one new letter only, one of them
\* reusing a yellow letter.
C3_Witness ==
    /\ Returned
    /\ \E r, q \in Results :
          /\ r.details.valid_for_n_games = q.details.valid_for_n_games
          /\ r.details.valid_for_n_games > 0
          /\ r.details.total_reused_grey = q.details.total_reused_grey
          /\ r.details.total_new_letters = q.details.total_new_letters + 1
          /\ r.details.total_reused_yellow > 0

RECURSIVE SumSeq(_)
SumSeq(q) == IF q = <<>> THEN 0 ELSE Head(q) + SumSeq(Tail(q))

\* A board is terminal when its latest guess is its target.
LatestGuessIsTarget(g) ==
    Len(g.guesses) > 0 /\ g.guesses[Len(g.guesses)] = g.target_word

\* Sum over the non-terminal boards of a per-board number.
SumOverOpenBoards(PerBoard(_)) ==
    SumSeq([b \in DOMAIN game_states |->
               IF LatestGuessIsTarget(game_states[b]) THEN 0 ELSE PerBoard(b)])

KnowledgeOf(b) == extract_game_knowledge(game_states[b])

\* C4: each counter of a candidate is the sum, over the non-terminal boards,
\* of the number of distinct letters of the word that are new, grey, yellow
\* or green on that board; a doubled letter counts once per board.
C4_CountersAreLetterSetSums ==
    Returned =>
        \A r \in Results :
            LET letters == {r.word[i] : i \in DOMAIN r.word}
                New(b) == Cardinality(letters \ KnowledgeOf(b).all_known_letters)
                Grey(b) == Cardinality(letters \cap KnowledgeOf(b).grey_letters)
                Yellow(b) == Cardinality(letters \cap KnowledgeOf(b).yellow_letters)
                Green(b) ==
                    Cardinality(letters \cap (DOMAIN KnowledgeOf(b).green_letters))
            IN  /\ r.details.total_new_letters = SumOverOpenBoards(New)
                /\ r.details.total_reused_grey = SumOverOpenBoards(Grey)
                /\ r.details.total_reused_yellow = SumOverOpenBoards(Yellow)
                /\ r.details.total_reused_green = SumOverOpenBoards(Green)

\* A candidate with a doubled letter that is yellow on a non-terminal board.
C4_Witness ==
    /\ Returned
    /\ \E r \in Results, b \in DOMAIN game_states :
          /\ ~LatestGuessIsTarget(game_states[b])
          /\ \E i, j \in DOMAIN r.word :
                /\ i # j
                /\ r.word[i] = r.word[j]
                /\ r.word[i] \in KnowledgeOf(b).yellow_letters

OpenBoards == SelectSeq(game_states, LAMBDA g : ~LatestGuessIsTarget(g))

\* C5: a board whose latest guess is its target adds nothing to any counter:
\* every candidate's entry is what scoring the other boards alone gives, and
\* with every board won all counters and the score are 0.
C5_TerminalBoardExcluded ==
    Returned =>
        /\ \A r \in Results : r = analyse_word(r.word, OpenBoards)
        /\ OpenBoards = <<>> =>
              \A r \in Results : r.score = 0 /\ r.details = ZeroDetails

\* A won board whose letters a returned candidate shares, next to a board
\* that is still scored.
C5_Witness ==
    /\ Returned
    /\ \E r \in Results, b, c \in DOMAIN game_states :
          /\ LatestGuessIsTarget(game_states[b])
          /\ {r.word[i] : i \in DOMAIN r.word}
                \cap KnowledgeOf(b).all_known_letters # {}
          /\ ~LatestGuessIsTarget(game_states[c])
          /\ r.score # 0

AllGuesses ==
    UNION {{game_states[b].guesses[i] : i \in DOMAIN game_states[b].guesses} :
              b \in DOMAIN game_states}

\* C6: no returned word equals a guess in the history of any board, won or
\* not.
C6_SamplingExclusion ==
    Returned => \A r \in Results : r.word \notin AllGuesses

\* A sampled word that was guessed on a won board and nowhere else, with
\* other candidates returned.
C6_Witness ==
    /\ Returned
    /\ analysis_results # <<>>
    /\ \E i \in DOMAIN candidate_words, b \in DOMAIN game_states :
          /\ LatestGuessIsTarget(game_states[b])
          /\ game_states[b].guesses = <<candidate_words[i]>>
          /\ \A c \in DOMAIN game_states :
                c # b => game_states[c].guesses = <<>>

Bijections(n) == {f \in [1..n -> 1..n] : \A i, j \in 1..n : i # j => f[i] # f[j]}

\* The entries scored by the loop, in sampling order.
Scored == analyse_candidates(candidate_words, game_states, AllGuesses)

\* C7: the returned list is in descending order of score and is a
\* permutation of the scored candidates.
C7_SortedPermutation ==
    Returned =>
        /\ \A i \in 1..(Len(analysis_results) - 1) :
              analysis_results[i].score >= analysis_results[i + 1].score
        /\ Len(analysis_results) = Len(Scored)
        /\ \E f \in Bijections(Len(Scored)) :
              \A i \in DOMAIN Scored : analysis_results[i] = Scored[f[i]]

\* A sample whose scored entries were not in descending order already.
C7_Witness ==
    /\ Returned
    /\ \E i \in 1..(Len(Scored) - 1) : Scored[i].score < Scored[i + 1].score

\* ----------------------------------------------------------------- report
Scores == {r.score : r \in Results}
MaxScore == CHOOSE m \in Scores : \A x \in Scores : x <= m
MinScore == CHOOSE m \in Scores : \A x \in Scores : m <= x
\* One point (two half points) stands in for a zero range.
Range == IF MaxScore = MinScore THEN 2 ELSE MaxScore - MinScore

\* n >= 0.8 and n >= 0.5 for n = (score - min) / range, range > 0.
NormalisedAtLeastFourFifths(score) == 5 * (score - MinScore) >= 4 * Range
NormalisedAtLeastHalf(score) == 2 * (score - MinScore) >= Range

\* C8: every candidate is in exactly one tier, great iff n >= 0.8, good iff
\* 0.5 <= n < 0.8, bad otherwise, and each tier keeps the sorted order.
C8_TiersByNormalisedScore ==
    (Returned /\ analysis_results # <<>>) =>
        /\ great_guesses =
              SelectSeq(analysis_results,
                        LAMBDA r : NormalisedAtLeastFourFifths(r.score))
        /\ good_guesses =
              SelectSeq(analysis_results,
                        LAMBDA r : /\ NormalisedAtLeastHalf(r.score)
                                   /\ ~NormalisedAtLeastFourFifths(r.score))
        /\ bad_guesses =
              SelectSeq(analysis_results,
                        LAMBDA r : ~NormalisedAtLeastHalf(r.score))
        /\ Len(great_guesses) + Len(good_guesses) + Len(bad_guesses)
              = Len(analysis_results)
        /\ reasoning_report.greats
              = [i \in DOMAIN great_guesses |-> great_guesses[i].word]
        /\ reasoning_report.goods
              = [i \in DOMAIN good_guesses |-> good_guesses[i].word]
        /\ reasoning_report.bads
              = [i \in DOMAIN bad_guesses |-> bad_guesses[i].word]

\* A report with all three tiers in use.
C8_Witness ==
    /\ Returned
    /\ great_guesses # <<>>
    /\ good_guesses # <<>>
    /\ bad_guesses # <<>>

\* C9: when all candidates of a non-empty list share one score, all of them
\* are bad and the great and good tiers are empty.
C9_FlatScoresAreBad ==
    (Returned /\ analysis_results # <<>> /\ Cardinality(Scores) = 1) =>
        /\ great_guesses = <<>>
        /\ good_guesses = <<>>
        /\ bad_guesses = analysis_results

\* Several candidates sharing one score that is not zero.
C9_Witness ==
    /\ Returned
    /\ Len(analysis_results) >= 2
    /\ Cardinality(Scores) = 1
    /\ 0 \notin Scores

EverySampledWordGuessed ==
    \A i \in DOMAIN candidate_words : candidate_words[i] \in AllGuesses

\* C10: with an empty word list, or with every sampled word already guessed,
\* impersonate_guesser returns an empty list and a report, and the three
\* tiers of the report are empty.
C10_NoCandidates ==
    (Returned /\ (wordlist = <<>> \/ EverySampledWordGuessed)) =>
        /\ analysis_results = <<>>
        /\ reasoning_report.kind \in {"No wordlist loaded.", "reasoning"}
        /\ wordlist # <<>> => reasoning_report.kind = "reasoning"
        /\ great_guesses = <<>> /\ good_guesses = <<>> /\ bad_guesses = <<>>
        /\ reasoning_report.greats = <<>>
        /\ reasoning_report.goods = <<>>
        /\ reasoning_report.bads = <<>>

\* A loaded word list all of whose sampled words were guessed, on two boards.
C10_Witness ==
    /\ Returned
    /\ wordlist # <<>>
    /\ EverySampledWordGuessed
    /\ \A b \in 1..2 : game_states[b].guesses # <<>>

\* --------------------------------------------------------- malformed boards
WellFormed(g) ==
    /\ Len(g.guesses) = Len(g.feedback)
    /\ \A i \in DOMAIN g.guesses : Len(g.guesses[i]) = WORD_LENGTH
    /\ \A i \in DOMAIN g.feedback : Len(g.feedback[i]) = WORD_LENGTH

ExtractCalled == call = "extract_game_knowledge"

\* C11: when extract_game_knowledge is called on a board whose guesses and
\* feedback differ in length, or that holds a guess or a feedback row of a
\* length other than 5, the call fails: it does not return a knowledge.
C11_MalformedBoardFails ==
    (ExtractCalled /\ ~WellFormed(game_states[game_arg])) => raised # "none"

\* A tile of a well-formed board whose value is none of the three colours.
UnknownTiles(g) == {t \in HistoryTiles(g) : TileColour(g, t) \notin Tiles}

\* C12: when extract_game_knowledge is called on a well-formed board with a
\* feedback tile that is not green, yellow or grey, the call fails: it does
\* not return a knowledge.
C12_UnknownTileFails ==
    (/\ ExtractCalled
     /\ WellFormed(game_states[game_arg])
     /\ UnknownTiles(game_states[game_arg]) # {}) => raised # "none"

\* -------------------------------------------------------- exhausted boards
\* A board with MAX_GUESSES guesses whose latest guess is not its target.
Exhausted(g) ==
    /\ Len(g.guesses) = MAX_GUESSES
    /\ g.guesses[MAX_GUESSES] # g.target_word

\* C13: a board that has used its six guesses without being solved is over
\* for is_game_over, yet the scorer treats it as an active board: with the
\* unfinished boards it is counted in valid_for_n_games and in the four
\* counters of every candidate, and only solved boards are left out.
C13_ExhaustedBoardIsScored ==
    /\ \A b \in DOMAIN game_states :
          Exhausted(game_states[b]) => is_game_over(game_states[b])
    /\ Returned =>
          \A r \in Results :
             LET letters == {r.word[i] : i \in DOMAIN r.word}
                 Counted(b) ==
                     \/ Exhausted(game_states[b])
                     \/ ~is_game_over(game_states[b])
                 Total(PerBoard(_)) ==
                     SumSeq([b \in DOMAIN game_states |->
                                IF Counted(b) THEN PerBoard(b) ELSE 0])
                 Valid(b) ==
                     IF /\ NoGreyLetter(r.word, KnowledgeOf(b))
                        /\ EveryYellowLetter(r.word, KnowledgeOf(b))
                        /\ GreenInPlace(r.word, KnowledgeOf(b))
                     THEN 1 ELSE 0
                 New(b) == Cardinality(letters \ KnowledgeOf(b).all_known_letters)
                 Grey(b) == Cardinality(letters \cap KnowledgeOf(b).grey_letters)
                 Yellow(b) == Cardinality(letters \cap KnowledgeOf(b).yellow_letters)
                 Green(b) ==
                     Cardinality(letters \cap (DOMAIN KnowledgeOf(b).green_letters))
             IN  /\ r.details.valid_for_n_games = Total(Valid)
                 /\ r.details.total_new_letters = Total(New)
                 /\ r.details.total_reused_grey = Total(Grey)
                 /\ r.details.total_reused_yellow = Total(Yellow)
                 /\ r.details.total_reused_green = Total(Green)

\* A rollout has returned an exhausted board next to a solved one, and a
\* candidate scored on them is valid for the exhausted board.
C13_Witness ==
    /\ Returned
    /\ pc = "returned"
    /\ \E r \in Results, b, c \in DOMAIN game_states :
          /\ Exhausted(game_states[b])
          /\ LatestGuessIsTarget(game_states[c])
          /\ r.details.valid_for_n_games = 1
          /\ r.details.total_reused_green > 0

\* ------------------------------------------------------------------ frame
\* A call of one of the functions is made in this step.
CallMade == call' # "none" /\ call' # call

\* C14: a call of extract_game_knowledge, is_word_valid_for_game or
\* impersonate_guesser (which runs build_reasoning_report) leaves every
\* board as it was: target_word, guesses and feedback; and the list that
\* impersonate_guesser returns after the report was built is the sorted list
\* the report was built from: same entries, scores, counters and order.
C14_CallsLeaveBoardsAlone ==
    [][CallMade =>
          /\ game_states' = game_states
          /\ call' = "impersonate_guesser" =>
                analysis_results' =
                    sort_by_score(
                        analyse_candidates(candidate_words', game_states,
                                           previously_guessed(game_states)))]_vars

\* impersonate_guesser has returned a list of two or more entries, built a
\* report on it, and the boards it read hold guesses.
C14_Witness ==
    /\ Returned
    /\ Len(analysis_results) >= 2
    /\ reasoning_report.kind = "reasoning"
    /\ \E b \in DOMAIN game_states : game_states[b].guesses # <<>>

\* ---------------------------------------------------------------- drivers
\* C15: in every state of run_single_rollout and generate_training_data,
\* each board has as many feedback rows as guesses, at most MAX_GUESSES of
\* them, and every feedback row has exactly five entries.
C15_HistoriesAligned ==
    \A b \in DOMAIN game_states :
        /\ Len(game_states[b].guesses) = Len(game_states[b].feedback)
        /\ Len(game_states[b].guesses) <= MAX_GUESSES
        /\ \A i \in DOMAIN game_states[b].feedback :
              Len(game_states[b].feedback[i]) = 5

\* A simulation of generate_training_data has run its six turns: one board
\* holds six guesses and another was solved before.
C15_Witness ==
    /\ pc = "generate_training_data"
    /\ sim >= 1
    /\ \E b, c \in DOMAIN game_states :
          /\ Len(game_states[b].guesses) = MAX_GUESSES
          /\ Len(game_states[c].guesses) \in 2..(MAX_GUESSES - 1)

\* ---------------------------------------------------------------- fixture
\* Board A: target crane, guess trace, row grey yellow yellow yellow green.
\* Board B: target ghost, guess audio, row grey grey grey grey yellow.
GoldenBoards ==
    << [target_word |-> Crane,
        guesses |-> <<Trace>>,
        feedback |-> <<Row("grey", "yellow", "yellow", "yellow", "green")>>],
       [target_word |-> Ghost,
        guesses |-> <<Audio>>,
        feedback |-> <<Row("grey", "grey", "grey", "grey", "yellow")>>] >>

\* C16: scored on the two boards of the fixture, the candidate "crate" gets
\* valid_for_n_games 0, 4 new letters, 2 reused grey, 3 reused yellow,
\* 1 reused green and the score -4 (-8 half points).
C16_GoldenFixture ==
    (Returned /\ game_states = GoldenBoards) =>
        /\ \E r \in Results : r.word = Crate
        /\ \A r \in Results :
              r.word = Crate =>
                 /\ r.details = [valid_for_n_games |-> 0,
                                 total_new_letters |-> 4,
                                 total_reused_grey |-> 2,
                                 total_reused_yellow |-> 3,
                                 total_reused_green |-> 1]
                 /\ r.score = -8

\* impersonate_guesser has returned an entry for "crate" on the fixture.
C16_Witness ==
    /\ Returned
    /\ game_states = GoldenBoards
    /\ \E r \in Results : r.word = Crate

\* -------------------------------------------------------------- candidates
\* C17: the returned list names no word twice, whatever the word file,
\* duplicate lines included; it has at most NUM_CANDIDATES entries and each
\* entry's word is a word of the loaded list.
C17_CandidatesDistinct ==
    Returned =>
        /\ \A i, j \in DOMAIN analysis_results :
              i # j => analysis_results[i].word # analysis_results[j].word
        /\ Len(analysis_results) <= NUM_CANDIDATES
        /\ \A i \in DOMAIN analysis_results :
              \E k \in DOMAIN wordlist : wordlist[k] = analysis_results[i].word

\* ------------------------------------------------------------- won boards
\* The step hands the driver new boards (initialize_games); the boards of
\* the session before are dropped, not written.
NewBoards == pc' # pc /\ pc' \in {"run_single_rollout", "simulation"}

\* C18: no step of run_single_rollout or generate_training_data changes a
\* board whose latest guess is its target: its guesses and feedback stay as
\* they are for the rest of the session while other boards get guesses.
C18_WonBoardFrozen ==
    [][\A b \in DOMAIN game_states :
          (LatestGuessIsTarget(game_states[b]) /\ ~NewBoards) =>
              /\ b \in DOMAIN game_states'
              /\ game_states'[b] = game_states[b]]_vars

\* A solved board that has sat out at least one later turn of the session.
C18_Witness ==
    \E b, c \in DOMAIN game_states :
        /\ LatestGuessIsTarget(game_states[b])
        /\ Len(game_states[b].guesses) < Len(game_states[c].guesses)

\* ------------------------------------------------------------- termination
\* A board is over: solved, or MAX_GUESSES guesses on it.
Over(g) == LatestGuessIsTarget(g) \/ Len(g.guesses) = MAX_GUESSES

\* C19: run_single_rollout returns, its turn loop never runs more than
\* MAX_GUESSES times, and when it has returned every board is over.
C19_RolloutTerminates ==
    /\ <>(pc = "returned")
    /\ [](turn <= MAX_GUESSES)
    /\ [](pc = "returned" => \A b \in DOMAIN game_states : Over(game_states[b]))

\* A rollout has returned after its sixth turn with an unsolved board next
\* to a solved one.
C19_Witness ==
    /\ pc = "returned"
    /\ turn = MAX_GUESSES
    /\ \E b, c \in DOMAIN game_states :
          /\ LatestGuessIsTarget(game_states[b])
          /\ ~LatestGuessIsTarget(game_states[c])

\* ----------------------------------------------------- apply_guess_to_games
\* A game is finished: MAX_GUESSES guesses on it, or its latest guess is its
\* target.  A fresh game without guesses is not finished.
Finished(g) == Len(g.guesses) >= MAX_GUESSES \/ LatestGuessIsTarget(g)

\* C20: a call of apply_guess_to_games with a guess appends the guess and
\* its generate_feedback row to every game that is not finished, a fresh
\* game without guesses included, and leaves the finished games as they are.
C20_AppliedToUnfinishedGames ==
    [][(call = "none" /\ call' = "apply_guess_to_games") =>
          \E guess \in GuessWords :
             \A b \in DOMAIN game_states :
                game_states'[b] =
                   IF Finished(game_states[b]) THEN game_states[b]
                   ELSE [game_states[b] EXCEPT
                           !.guesses = Append(@, guess),
                           !.feedback =
                              Append(@, generate_feedback(
                                           guess, game_states[b].target_word))]]_vars

\* ---------------------------------------------------------------- soundness
\* The board the last call read.
BoardRead == game_states[game_arg]

\* C21: on a board whose feedback rows all come from generate_feedback
\* against the board's target, no letter of the extracted grey_letters is a
\* letter of the target, and is_word_valid_for_game of the target against
\* the extracted knowledge is true; repeated letters in guesses and targets
\* included.
C21_KnowledgeSound ==
    /\ (KnowledgeReturned /\ raised = "none") =>
          \A i \in 1..WORD_LENGTH :
             BoardRead.target_word[i] \notin knowledge.grey_letters
    /\ (call = "is_word_valid_for_game" /\ word = BoardRead.target_word) =>
          valid = TRUE

\* The target has been tested against the knowledge of an unsolved board on
\* which one letter has a grey tile and a green tile.
C21_Witness ==
    /\ call = "is_word_valid_for_game"
    /\ word = BoardRead.target_word
    /\ valid = TRUE
    /\ ~LatestGuessIsTarget(BoardRead)
    /\ \E t, u \in HistoryTiles(BoardRead) :
          /\ TileLetter(BoardRead, t) = TileLetter(BoardRead, u)
          /\ TileColour(BoardRead, t) = "grey"
          /\ TileColour(BoardRead, u) = "green"

====
